---- MODULE Spec2Model ----
(***************************************************************************)
(* Model of the LinkedIn Profile Optimizer: the Streamlit script (app.py), *)
(* the compiled LangGraph workflow (backend/graph.py) and its nodes        *)
(* (backend/agents.py).                                                    *)
(*                                                                         *)
(* A script run is cut at the remote calls: the event that starts the run  *)
(* executes the script up to graph.stream(), the supervisor node and the   *)
(* four agent nodes are one step each, and the step that brings the run to *)
(* END (or raises) also executes the rest of the script.                   *)
(*                                                                         *)
(* Three specifications:                                                   *)
(*   Spec          the application, one session whose events arrive while  *)
(*                 its script is idle: sidebar events, chat input, graph   *)
(*                 runs.                                                   *)
(*   SpecGraph     the compiled graph driven directly with arbitrary input *)
(*                 state and a deterministic router backend.               *)
(*   SpecSessions  two sessions of one server process, events arriving at  *)
(*                 any time; a graph run is one step, get_llm is cut       *)
(*                 between its two statements.                             *)
(***************************************************************************)
EXTENDS Integers, Sequences, FiniteSets, TLC

\* ------------------------------------------------------------------ bounds
MaxMsgs == 5   \* chat input is offered while the history is shorter
MaxLen  == 2   \* longest message list handed directly to the graph
MaxSessMsgs == 3  \* SpecSessions: chat input is offered while the history is shorter

\* ------------------------------------------------------------- vocabulary
\* agents.py:11 / graph.py:27-30: the four agent node names
Builders == {"Profile Analyzer", "Job Fit Analyzer", "Content Enhancer", "Career Counselor"}

\* agents.py:15: Literal[...] of SupervisorRouterFormatter.next_agent
SupervisorRouterFormatter == Builders \cup {"__end__"}

\* what a structured-output call can come back with: a conforming value,
\* an output that fails validation ("malformed"), or a raised remote error
RawOut == SupervisorRouterFormatter \cup {"malformed", "error"}

HumanMessage(c) == [type |-> "human", content |-> c]
AIMessage(c)    == [type |-> "ai", content |-> c]

\* app.py:93
InitialPrompt == "Analyze my profile by using the Profile Analyzer tool."

Prompts     == {"hello", "goodbye"}      \* texts typed into st.chat_input
Replies     == {"", "reply"}             \* texts a generation call returns
Summaries   == {"s1", "s2"}              \* results of create_profile_summary
DirectTexts == {"", "hello"}             \* contents of directly supplied messages

DirectMsgs == {HumanMessage(c) : c \in DirectTexts} \cup {AIMessage(c) : c \in DirectTexts}

RECURSIVE SeqsUpTo(_, _)
SeqsUpTo(S, n) ==
    IF n = 0 THEN {<< >>}
    ELSE LET shorter == SeqsUpTo(S, n - 1)
         IN  shorter \cup {Append(s, x) : s \in {t \in shorter : Len(t) = n - 1}, x \in S}

\* ------------------------------------------------------------------ state
VARIABLES
    api_key,          \* sidebar text input is non-empty
    has_profile,      \* "profile_data" in st.session_state
    profile_summary,  \* st.session_state.profile_summary ("unset" before a load)
    ss_messages,      \* st.session_state.messages
    appPc,            \* "idle" | "initial" | "followup" | "direct"
    final_ai_response,\* the handler's local of that name
    g_messages,       \* checkpointed channel  messages      (thread = session id)
    g_profile_data,   \* checkpointed channel  profile_data
    g_next,           \* checkpointed channel  next ("unset" before the first write)
    node,             \* "none" | "supervisor" | an agent node | "END" | "raised"
    stubbed,          \* the router backend is a deterministic stub
    routerStub,       \* the stub: request text -> RawOut
    turnPre,          \* history: ss_messages when the turn's event arrived
    turnUser,         \* history: text of the User message of the turn
    turnTrace,        \* history: nodes invoked in this run, in order
    turnOutcome,      \* history: "none" | "running" | "ok" | "ended" | "RoutingFailure" | "GenerationFailure"
    turnReply,        \* history: text generated by the agent node of this run
    routerReq,        \* history: current_request of the last supervisor call
    routerRaw,        \* history: backend output of the last supervisor call
    routerAttempts,   \* history: chain.invoke calls made by the supervisor in this run
    everEnded,        \* history: some run of the session was routed to "__end__"
    routed,           \* history: <<latest User text, it is the whole conversation, decision>> of stubbed router calls
    lastOp,           \* history: name of the last operation
    agentCall,        \* history: prompt variables of the last agent node call
    initialRuns,      \* history: initial analyses started since the last profile load
    os_environ,       \* SpecSessions: os.environ of the server process
    w_api_key,        \* SpecSessions: per session, text of the API key field
    w_provider,       \* SpecSessions: per session, value of the provider selectbox
    s_messages,       \* SpecSessions: per session, st.session_state.messages
    s_summary,        \* SpecSessions: per session, st.session_state.profile_summary
    s_graph,          \* SpecSessions: per session, the model client st.session_state.graph was built with
    checkpoints,      \* SpecSessions: checkpointed messages per thread id (= session id)
    runner,           \* SpecSessions: per session, where its current script run stands
    detached,         \* SpecSessions: per session, a stopped script run is still inside graph.stream
    actor             \* SpecSessions: session that took the last step

appVars   == <<api_key, has_profile, profile_summary, ss_messages, appPc, final_ai_response>>
graphVars == <<g_messages, g_profile_data, g_next, node>>
stubVars  == <<stubbed, routerStub>>
histVars  == <<turnPre, turnUser, turnTrace, turnOutcome, turnReply, routerReq,
               routerRaw, routerAttempts, everEnded, routed, lastOp,
               agentCall, initialRuns>>
rtVars    == <<os_environ, w_api_key, w_provider, s_messages, s_summary, s_graph,
               checkpoints, runner, detached, actor>>
vars      == <<appVars, graphVars, stubVars, histVars, rtVars>>

\* ------------------------------------------------- properties' vocabulary
HumanIdx(msgs) == {i \in 1..Len(msgs) : msgs[i].type = "human"}

\* text of the most recent User message of a conversation, "" when it has none
LatestUserText(msgs) ==
    IF HumanIdx(msgs) = {} THEN ""
    ELSE msgs[CHOOSE i \in HumanIdx(msgs) : \A j \in HumanIdx(msgs) : j <= i].content

NumUser(msgs) == Cardinality(HumanIdx(msgs))

IsPrefix(s, t) == Len(s) <= Len(t) /\ SubSeq(t, 1, Len(s)) = s

Failures == {"RoutingFailure", "GenerationFailure"}

\* ----------------------------------------------------------- agents.py
\* variant: scans from the front, the oldest HumanMessage wins
RECURSIVE get_first_user_message(_)
get_first_user_message(messages) ==
    IF messages = << >> THEN ""
    ELSE IF Head(messages).type = "human"
         THEN Head(messages).content
         ELSE get_first_user_message(Tail(messages))

\* variant: takes the content of the last message whatever its type
get_last_message_content(messages) ==
    IF messages = << >> THEN "" ELSE messages[Len(messages)].content

\* agents.py:20-25: scan from the end, first HumanMessage wins, else ""
RECURSIVE get_current_user_message(_)
get_current_user_message(messages) ==
    IF messages = << >> THEN ""
    ELSE IF messages[Len(messages)].type = "human"
         THEN messages[Len(messages)].content
         ELSE get_current_user_message(SubSeq(messages, 1, Len(messages) - 1))

\* agents.py:8-11: AgentState declares no reducer, so a node's update of a
\* channel replaces the channel's value
AgentStateUpdate(old, new) == new

\* variant: a malformed first answer is retried once
SupervisorAgentRetrying(outs) ==
    IF outs[1] = "malformed"
    THEN [attempts |-> 2, raw |-> outs[2]]
    ELSE [attempts |-> 1, raw |-> outs[1]]

\* agents.py:55-59: one chain.invoke; outs is what the backend would answer
\* on successive invocations
SupervisorAgent(outs) == [attempts |-> 1, raw |-> outs[1]]

\* agents.py:89-93 (and 122-126, 165-169, 196-200): the variables an agent
\* node fills its prompt with
agent_prompt_variables(messages, profile_data) ==
    [profile_data |-> profile_data, current_request |-> get_current_user_message(messages)]

\* agents.py:88-94 (and 121-127, 164-170, 195-201): the update an agent
\* node returns for a generated response
agent_wrapper(response) == [messages |-> <<AIMessage(response)>>]

\* ------------------------------------------------------------- graph.py
\* variant: a thread whose last run was routed to "__end__" is not restarted
EntryPointUnlessEnded(checkpoint) ==
    IF checkpoint.next = "__end__" THEN "END" ELSE "supervisor"

\* graph.py:32
EntryPoint(checkpoint) == "supervisor"

\* variant: "__end__" is mapped to an agent node
ConditionalEdgesEndToAgent ==
    { <<"Profile Analyzer", "Profile Analyzer">>,
      <<"Job Fit Analyzer", "Job Fit Analyzer">>,
      <<"Content Enhancer", "Content Enhancer">>,
      <<"Career Counselor", "Career Counselor">>,
      <<"__end__", "Career Counselor">> }

\* variant: two keys of the path map are swapped
ConditionalEdgesSwapped ==
    { <<"Profile Analyzer", "Profile Analyzer">>,
      <<"Job Fit Analyzer", "Content Enhancer">>,
      <<"Content Enhancer", "Job Fit Analyzer">>,
      <<"Career Counselor", "Career Counselor">>,
      <<"__end__", "END">> }

\* graph.py:34-44: path map of the conditional edges, keyed by state["next"]
ConditionalEdges ==
    { <<"Profile Analyzer", "Profile Analyzer">>,
      <<"Job Fit Analyzer", "Job Fit Analyzer">>,
      <<"Content Enhancer", "Content Enhancer">>,
      <<"Career Counselor", "Career Counselor">>,
      <<"__end__", "END">> }

\* variant: an agent node hands control back to the supervisor
EdgesBackToSupervisor ==
    { <<"Profile Analyzer", "supervisor">>,
      <<"Content Enhancer", "END">>,
      <<"Job Fit Analyzer", "END">>,
      <<"Career Counselor", "END">> }

\* graph.py:46-49
Edges ==
    { <<"Profile Analyzer", "END">>,
      <<"Content Enhancer", "END">>,
      <<"Job Fit Analyzer", "END">>,
      <<"Career Counselor", "END">> }

Targets(E, from) == {e[2] : e \in {x \in E : x[1] = from}}

\* what the router backend may answer for a request
BackendStructured(req) ==
    IF stubbed
    THEN {IF req \in DOMAIN routerStub THEN routerStub[req] ELSE "error"}
    ELSE RawOut

\* --------------------------------------------------------------- app.py
\* variant: the User message is not recorded before the graph is invoked
AppendUserSkipped(msgs, text) == msgs

\* variant: the User message is put in front of the history
AppendUserInFront(msgs, text) == <<HumanMessage(text)>> \o msgs

\* app.py:94 and app.py:126
AppendUser(msgs, text) == Append(msgs, HumanMessage(text))

\* app.py:109-114 / 142-146: a chunk of an agent node replaces the local
\* when its last message has non-empty content
OnChunk(final, content) == IF content # "" THEN content ELSE final

\* variant: the response replaces the history
SaveResponseReplacing(msgs, final) == IF final # "" THEN <<AIMessage(final)>> ELSE msgs

\* app.py:117-118 / 148-149
SaveResponse(msgs, final) == IF final # "" THEN Append(msgs, AIMessage(final)) ELSE msgs

\* variant: profile_data is handed over only while the thread has none
StreamKeepingProfile(input_messages, input_profile) ==
    /\ g_messages' = AgentStateUpdate(g_messages, input_messages)
    /\ g_profile_data' = IF g_profile_data = "unset" THEN input_profile ELSE g_profile_data
    /\ g_next' = g_next
    /\ node' = EntryPoint([messages |-> g_messages, next |-> g_next])
    /\ final_ai_response' = ""
    /\ turnTrace' = << >>
    /\ turnOutcome' = "running"
    /\ turnReply' = ""
    /\ routerAttempts' = 0
    /\ UNCHANGED <<routerReq, routerRaw>>

\* graph.stream(input, config): the input overwrites the channels it names,
\* "next" keeps its checkpointed value, the run starts at the entry point
Stream(input_messages, input_profile) ==
    /\ g_messages' = AgentStateUpdate(g_messages, input_messages)
    /\ g_profile_data' = AgentStateUpdate(g_profile_data, input_profile)
    /\ g_next' = g_next
    /\ node' = EntryPoint([messages |-> g_messages, next |-> g_next])
    /\ final_ai_response' = ""
    /\ turnTrace' = << >>
    /\ turnOutcome' = "running"
    /\ turnReply' = ""
    /\ routerAttempts' = 0
    /\ UNCHANGED <<routerReq, routerRaw>>

NoRun ==
    /\ UNCHANGED <<graphVars, final_ai_response>>
    /\ UNCHANGED <<turnPre, turnUser, turnTrace, turnReply, routerReq, routerRaw, routerAttempts>>

\* app.py:68-149: the script below the sidebar, up to its first remote call.
\* key, hasp, summ, msgs are the values the sidebar left; prompt is the
\* submitted chat text or "" when the run was not caused by the chat input.
Script(key, hasp, summ, msgs, prompt) ==
    IF ~key \/ ~hasp
    THEN \* app.py:68-70 st.stop(), or app.py:150-151
         /\ ss_messages' = msgs
         /\ appPc' = "idle"
         /\ turnOutcome' = IF msgs = ss_messages THEN turnOutcome ELSE "none"
         /\ NoRun
    ELSE IF msgs = << >>
    THEN \* app.py:90-107
         /\ ss_messages' = AppendUser(msgs, InitialPrompt)
         /\ appPc' = "initial"
         /\ turnPre' = msgs
         /\ turnUser' = InitialPrompt
         /\ Stream(<<HumanMessage(InitialPrompt)>>, summ)
    ELSE IF prompt # ""
    THEN \* app.py:124-140
         /\ ss_messages' = AppendUser(msgs, prompt)
         /\ appPc' = "followup"
         /\ turnPre' = msgs
         /\ turnUser' = prompt
         /\ Stream(AppendUser(msgs, prompt), summ)
    ELSE \* app.py:119-121, no chat input
         /\ ss_messages' = msgs
         /\ appPc' = "idle"
         /\ UNCHANGED turnOutcome
         /\ NoRun

\* app.py:39: the API key field is edited; the script reruns
SetApiKey(k) ==
    /\ appPc = "idle"
    /\ api_key' = k
    /\ UNCHANGED <<has_profile, profile_summary>>
    /\ Script(k, has_profile, profile_summary, ss_messages, "")
    /\ lastOp' = "SetApiKey"
    /\ initialRuns' = initialRuns + (IF appPc' = "initial" THEN 1 ELSE 0)
    /\ UNCHANGED <<stubVars, everEnded, routed, agentCall>>
    /\ UNCHANGED rtVars

\* app.py:43-66: "Scrape & Analyze Profile".  url: the URL field is filled;
\* ok: scraping and summarising both returned
LoadProfile(url, ok, summ) ==
    /\ appPc = "idle"
    /\ UNCHANGED api_key
    /\ IF url /\ ok
       THEN \* app.py:56-62, then the rerun
            /\ profile_summary' = summ
            /\ has_profile' = TRUE
            /\ Script(api_key, TRUE, summ, << >>, "")
            /\ lastOp' = "LoadProfile"
            /\ initialRuns' = (IF appPc' = "initial" THEN 1 ELSE 0)
       ELSE \* app.py:63-66, the script goes on
            /\ UNCHANGED <<has_profile, profile_summary>>
            /\ Script(api_key, has_profile, profile_summary, ss_messages, "")
            /\ lastOp' = "LoadProfileFailed"
            /\ initialRuns' = initialRuns + (IF appPc' = "initial" THEN 1 ELSE 0)
    /\ UNCHANGED <<stubVars, everEnded, routed, agentCall>>
    /\ UNCHANGED rtVars

\* app.py:124: a text is submitted in the chat input
SubmitPrompt(prompt) ==
    /\ appPc = "idle"
    /\ api_key /\ has_profile
    /\ Len(ss_messages) < MaxMsgs - 1
    /\ UNCHANGED <<api_key, has_profile, profile_summary>>
    /\ Script(api_key, has_profile, profile_summary, ss_messages, prompt)
    /\ lastOp' = "SubmitPrompt"
    /\ initialRuns' = initialRuns + (IF appPc' = "initial" THEN 1 ELSE 0)
    /\ UNCHANGED <<stubVars, everEnded, routed, agentCall>>
    /\ UNCHANGED rtVars

\* variant: a handler around the loop takes the User message back
RaisedRollingBack(kind) ==
    /\ node' = "raised"
    /\ appPc' = IF appPc = "direct" THEN "direct" ELSE "idle"
    /\ turnOutcome' = kind
    /\ ss_messages' = turnPre
    /\ UNCHANGED final_ai_response

\* An exception leaves graph.stream: the script run is aborted, nothing
\* below the loop runs (app.py has no handler around the loop)
Raised(kind) ==
    /\ node' = "raised"
    /\ appPc' = IF appPc = "direct" THEN "direct" ELSE "idle"
    /\ turnOutcome' = kind
    /\ UNCHANGED <<ss_messages, final_ai_response>>

\* The run reached END: the rest of the handler runs (app.py:116-118 / 148-149)
Finished(final, outcome) ==
    /\ node' = "END"
    /\ final_ai_response' = final
    /\ turnOutcome' = outcome
    /\ IF appPc = "direct"
       THEN UNCHANGED <<ss_messages, appPc>>
       ELSE /\ ss_messages' = SaveResponse(ss_messages, final)
            /\ appPc' = "idle"

\* graph.py:26, agents.py:55-59, then the conditional edges graph.py:34-44
SupervisorNode ==
    /\ node = "supervisor"
    /\ LET current_request == get_current_user_message(g_messages)
       IN \E o1 \in BackendStructured(current_request) :
          \E o2 \in BackendStructured(current_request) :
            LET call == SupervisorAgent(<<o1, o2>>)
                targets == Targets(ConditionalEdges, call.raw)
            IN  /\ routerReq' = current_request
                /\ routerRaw' = call.raw
                /\ routerAttempts' = call.attempts
                /\ turnTrace' = Append(turnTrace, "supervisor")
                /\ IF call.raw \in SupervisorRouterFormatter /\ targets # {}
                   THEN /\ g_next' = AgentStateUpdate(g_next, call.raw)
                        /\ everEnded' = (everEnded \/ call.raw = "__end__")
                        /\ routed' = IF stubbed
                                     THEN routed \cup {<<turnUser, g_messages = <<HumanMessage(turnUser)>>, call.raw>>}
                                     ELSE routed
                        /\ \E t \in targets :
                             IF t = "END"
                             THEN Finished(final_ai_response, "ended")
                             ELSE /\ node' = t
                                  /\ UNCHANGED <<ss_messages, appPc, final_ai_response, turnOutcome>>
                   ELSE /\ Raised("RoutingFailure")
                        /\ UNCHANGED <<g_next, everEnded>>
                        /\ routed' = IF stubbed
                                     THEN routed \cup {<<turnUser, g_messages = <<HumanMessage(turnUser)>>, "RoutingFailure">>}
                                     ELSE routed
    /\ lastOp' = "supervisor"
    /\ UNCHANGED <<api_key, has_profile, profile_summary, g_messages, g_profile_data>>
    /\ UNCHANGED <<stubVars, turnPre, turnUser, turnReply, agentCall, initialRuns>>
    /\ UNCHANGED rtVars

\* graph.py:27-30, agents.py:88-94, then the edge to END graph.py:46-49
AgentNode(name) ==
    /\ node = name
    /\ turnTrace' = Append(turnTrace, name)
    /\ agentCall' = agent_prompt_variables(g_messages, g_profile_data)
    /\ \E ok \in BOOLEAN, response \in Replies :
         IF ok
         THEN LET update == agent_wrapper(response)
                  content == update.messages[Len(update.messages)].content
              IN  /\ g_messages' = AgentStateUpdate(g_messages, update.messages)
                  /\ turnReply' = response
                  /\ \E t \in Targets(Edges, name) :
                       IF t = "END"
                       THEN Finished(OnChunk(final_ai_response, content), "ok")
                       ELSE /\ node' = t
                            /\ final_ai_response' = OnChunk(final_ai_response, content)
                            /\ UNCHANGED <<ss_messages, appPc, turnOutcome>>
         ELSE /\ response = ""
              /\ Raised("GenerationFailure")
              /\ UNCHANGED <<g_messages, turnReply>>
    /\ lastOp' = name
    /\ UNCHANGED <<api_key, has_profile, profile_summary, g_profile_data, g_next>>
    /\ UNCHANGED <<stubVars, turnPre, turnUser, routerReq, routerRaw, routerAttempts,
                   everEnded, routed, initialRuns>>
    /\ UNCHANGED rtVars

ProfileAnalyzer == AgentNode("Profile Analyzer")
JobFitAnalyzer  == AgentNode("Job Fit Analyzer")
ContentEnhancer == AgentNode("Content Enhancer")
CareerCounselor == AgentNode("Career Counselor")

\* graph.stream called directly on the compiled graph with any input state
DirectInvoke(input_messages, input_profile) ==
    /\ appPc = "direct"
    /\ node \in {"none", "END", "raised"}
    /\ turnPre' = << >>
    /\ turnUser' = LatestUserText(input_messages)
    /\ Stream(input_messages, input_profile)
    /\ lastOp' = "DirectInvoke"
    /\ UNCHANGED <<api_key, has_profile, profile_summary, ss_messages, appPc>>
    /\ UNCHANGED <<stubVars, everEnded, routed, agentCall, initialRuns>>
    /\ UNCHANGED rtVars


\* ------------------------------------------------- several sessions, app.py
\* Streamlit serves every browser session from one process: each session
\* has its own st.session_state and its own script thread, os.environ is
\* the process's.  A widget event that arrives while the session's script
\* is running stops that run and starts a new one at once; the stopped run
\* is cut off from st.session_state and goes on until its next st.* call,
\* which for a run inside graph.stream is after the graph has finished.
Sessions  == {"a", "b"}
Providers == {"OpenAI", "Groq"}                 \* app.py:38
EnvNames  == {"OPENAI_API_KEY", "GROQ_API_KEY"} \* app.py:19, app.py:22
OwnKey(s) == IF s = "a" THEN "key-a" ELSE "key-b"
Turns     == {"initial", "followup"}
NoGraph   == [provider |-> "None", api_key |-> "None"]   \* app.py:32-33

EnvName(provider) == IF provider = "OpenAI" THEN "OPENAI_API_KEY" ELSE "GROQ_API_KEY"

\* app.py:19 / app.py:22: get_llm stores the key in the process environment
get_llm_environ(environ, provider, key) == [environ EXCEPT ![EnvName(provider)] = key]

\* app.py:20 / app.py:23: the client is built without a key argument and
\* takes the key from the process environment
get_llm_client(environ, provider) == [provider |-> provider, api_key |-> environ[EnvName(provider)]]

\* a widget event of session s: its running script is stopped; a run that
\* is inside graph.stream stays behind, detached
RtEvent(s) ==
    /\ ~(runner[s] \in Turns /\ detached[s])
    /\ UNCHANGED <<appVars, graphVars, stubVars, histVars>>
    /\ detached' = [detached EXCEPT ![s] = detached[s] \/ runner[s] \in Turns]
    /\ actor' = s

RtStep(s) ==
    /\ UNCHANGED <<appVars, graphVars, stubVars, histVars>>
    /\ UNCHANGED detached
    /\ actor' = s

\* app.py:88-140 up to graph.stream
RtChat(s, msgs, summ, prompt) ==
    IF summ # "unset" /\ msgs = << >>
    THEN /\ s_messages' = [s_messages EXCEPT ![s] = AppendUser(msgs, InitialPrompt)]
         /\ checkpoints' = [checkpoints EXCEPT ![s] = <<HumanMessage(InitialPrompt)>>]
         /\ runner' = [runner EXCEPT ![s] = "initial"]
    ELSE IF summ # "unset" /\ prompt # ""
    THEN /\ s_messages' = [s_messages EXCEPT ![s] = AppendUser(msgs, prompt)]
         /\ checkpoints' = [checkpoints EXCEPT ![s] = AppendUser(msgs, prompt)]
         /\ runner' = [runner EXCEPT ![s] = "followup"]
    ELSE /\ s_messages' = [s_messages EXCEPT ![s] = msgs]
         /\ runner' = [runner EXCEPT ![s] = "idle"]
         /\ UNCHANGED checkpoints

\* app.py:68-140: a script run below the sidebar, up to its first
\* suspension (inside get_llm at app.py:74, or inside graph.stream)
RtScript(s, key, msgs, summ, prompt) ==
    IF key = ""
    THEN \* app.py:68-70
         /\ s_messages' = [s_messages EXCEPT ![s] = msgs]
         /\ runner' = [runner EXCEPT ![s] = "idle"]
         /\ UNCHANGED <<os_environ, checkpoints>>
    ELSE IF s_graph[s] = NoGraph
    THEN \* app.py:73-74, get_llm up to the assignment of the environment
         /\ os_environ' = get_llm_environ(os_environ, w_provider[s], key)
         /\ s_messages' = [s_messages EXCEPT ![s] = msgs]
         /\ runner' = [runner EXCEPT ![s] = "graph_llm"]
         /\ UNCHANGED checkpoints
    ELSE /\ RtChat(s, msgs, summ, prompt)
         /\ UNCHANGED os_environ

\* app.py:39: the session's key is typed into the API key field
RtEnterKey(s) ==
    /\ w_api_key[s] = ""
    /\ RtEvent(s)
    /\ w_api_key' = [w_api_key EXCEPT ![s] = OwnKey(s)]
    /\ RtScript(s, OwnKey(s), s_messages[s], s_summary[s], "")
    /\ UNCHANGED <<w_provider, s_summary, s_graph>>

\* app.py:43-45: the load button is clicked with a URL filled in; get_llm
\* runs up to the assignment of the environment
RtClickLoad(s) ==
    /\ RtEvent(s)
    /\ os_environ' = get_llm_environ(os_environ, w_provider[s], w_api_key[s])
    /\ runner' = [runner EXCEPT ![s] = "load_llm"]
    /\ UNCHANGED <<w_api_key, w_provider, s_messages, s_summary, s_graph, checkpoints>>

\* app.py:45-66: the client is built, the profile scraped and summarised;
\* then the rerun (app.py:62) or the rest of the script
RtLoadDone(s, ok, summ) ==
    /\ runner[s] = "load_llm"
    /\ RtStep(s)
    /\ IF ok
       THEN /\ s_summary' = [s_summary EXCEPT ![s] = summ]
            /\ RtScript(s, w_api_key[s], << >>, summ, "")
       ELSE /\ UNCHANGED s_summary
            /\ RtScript(s, w_api_key[s], s_messages[s], s_summary[s], "")
    /\ UNCHANGED <<w_api_key, w_provider, s_graph>>

\* app.py:74-78: the client is built and the graph compiled around it; the
\* script goes on below
RtGraphBuilt(s) ==
    /\ runner[s] = "graph_llm"
    /\ RtStep(s)
    /\ s_graph' = [s_graph EXCEPT ![s] = get_llm_client(os_environ, w_provider[s])]
    /\ RtChat(s, s_messages[s], s_summary[s], "")
    /\ UNCHANGED <<os_environ, w_api_key, w_provider, s_summary>>

\* app.py:124: a text is submitted in the chat input, which is on the page
\* once a history is displayed, also while a follow-up turn is running
RtSubmit(s, prompt) ==
    /\ w_api_key[s] # "" /\ s_graph[s] # NoGraph /\ s_summary[s] # "unset"
    /\ runner[s] \in {"idle", "followup"}
    /\ s_messages[s] # << >>
    /\ Len(s_messages[s]) < MaxSessMsgs - 1
    /\ RtEvent(s)
    /\ RtScript(s, w_api_key[s], s_messages[s], s_summary[s], prompt)
    /\ UNCHANGED <<w_api_key, w_provider, s_summary, s_graph>>

\* app.py:104-118 / 137-149: graph.stream comes to its end in the session's
\* running script; replied: an agent node returned a non-empty text
RtTurnDone(s, replied) ==
    /\ runner[s] \in Turns
    /\ RtStep(s)
    /\ runner' = [runner EXCEPT ![s] = "idle"]
    /\ IF replied
       THEN /\ checkpoints' = [checkpoints EXCEPT ![s] = agent_wrapper("reply").messages]
            /\ s_messages' = [s_messages EXCEPT ![s] = SaveResponse(s_messages[s], "reply")]
       ELSE UNCHANGED <<checkpoints, s_messages>>
    /\ UNCHANGED <<os_environ, w_api_key, w_provider, s_summary, s_graph>>

\* app.py:104-114 / 137-146: graph.stream comes to its end in a stopped
\* script run: the checkpoint is written, the run ends at its next st.* call
RtDetachedTurnDone(s, replied) ==
    /\ detached[s]
    /\ UNCHANGED <<appVars, graphVars, stubVars, histVars>>
    /\ detached' = [detached EXCEPT ![s] = FALSE]
    /\ actor' = s
    /\ IF replied
       THEN checkpoints' = [checkpoints EXCEPT ![s] = agent_wrapper("reply").messages]
       ELSE UNCHANGED checkpoints
    /\ UNCHANGED <<os_environ, w_api_key, w_provider, s_messages, s_summary, s_graph, runner>>

\* --------------------------------------------------------- specifications
InitCommon ==
    /\ profile_summary = "unset"
    /\ ss_messages = << >>
    /\ final_ai_response = ""
    /\ g_messages = << >>
    /\ g_profile_data = "unset"
    /\ g_next = "unset"
    /\ node = "none"
    /\ turnPre = << >>
    /\ turnUser = ""
    /\ turnTrace = << >>
    /\ turnOutcome = "none"
    /\ turnReply = ""
    /\ routerReq = ""
    /\ routerRaw = "error"
    /\ routerAttempts = 0
    /\ everEnded = FALSE
    /\ routed = {}
    /\ lastOp = "init"
    /\ agentCall = [profile_data |-> "unset", current_request |-> ""]
    /\ initialRuns = 0

\* app.py:28-33 for every session of the process
RtInit ==
    /\ os_environ = [n \in EnvNames |-> "unset"]
    /\ w_api_key = [s \in Sessions |-> ""]
    /\ w_provider \in {f \in [Sessions -> Providers] : f["a"] = "OpenAI"}
    /\ s_messages = [s \in Sessions |-> << >>]
    /\ s_summary = [s \in Sessions |-> "unset"]
    /\ s_graph = [s \in Sessions |-> NoGraph]
    /\ checkpoints = [s \in Sessions |-> << >>]
    /\ runner = [s \in Sessions |-> "idle"]
    /\ detached = [s \in Sessions |-> FALSE]
    /\ actor = "none"

RtQuiet == RtInit /\ w_provider = [s \in Sessions |-> "OpenAI"]

\* app.py:28-33: a fresh session; the backend is the live model
Init ==
    /\ InitCommon
    /\ RtQuiet
    /\ api_key = FALSE
    /\ has_profile = FALSE
    /\ appPc = "idle"
    /\ stubbed = FALSE
    /\ routerStub = [t \in DirectTexts |-> "error"]

Next ==
    \/ \E k \in BOOLEAN : SetApiKey(k)
    \/ \E url \in BOOLEAN, ok \in BOOLEAN, summ \in Summaries : LoadProfile(url, ok, summ)
    \/ \E prompt \in Prompts : SubmitPrompt(prompt)
    \/ SupervisorNode
    \/ ProfileAnalyzer
    \/ JobFitAnalyzer
    \/ ContentEnhancer
    \/ CareerCounselor

Spec == Init /\ [][Next]_vars

\* build_graph(llm) with a deterministic stub for llm, driven directly
InitGraph ==
    /\ InitCommon
    /\ RtQuiet
    /\ api_key = TRUE
    /\ has_profile = FALSE
    /\ appPc = "direct"
    /\ stubbed = TRUE
    /\ routerStub \in [DirectTexts -> RawOut]

NextGraph ==
    \/ \E m \in SeqsUpTo(DirectMsgs, MaxLen) : DirectInvoke(m, "s1")
    \/ SupervisorNode
    \/ ProfileAnalyzer
    \/ JobFitAnalyzer
    \/ ContentEnhancer
    \/ CareerCounselor

SpecGraph == InitGraph /\ [][NextGraph]_vars

\* the sessions of one server process, each with its own browser
InitSessions ==
    /\ InitCommon
    /\ api_key = FALSE
    /\ has_profile = FALSE
    /\ appPc = "idle"
    /\ stubbed = FALSE
    /\ routerStub = [t \in DirectTexts |-> "error"]
    /\ RtInit

NextSessions ==
    \/ \E s \in Sessions : RtEnterKey(s)
    \/ \E s \in Sessions : RtClickLoad(s)
    \/ \E s \in Sessions, ok \in BOOLEAN : RtLoadDone(s, ok, "s1")
    \/ \E s \in Sessions : RtGraphBuilt(s)
    \/ \E s \in Sessions : RtSubmit(s, "hello")
    \/ \E s \in Sessions, replied \in BOOLEAN : RtTurnDone(s, replied)
    \/ \E s \in Sessions, replied \in BOOLEAN : RtDetachedTurnDone(s, replied)

SpecSessions == InitSessions /\ [][NextSessions]_vars

TypeOK ==
    /\ api_key \in BOOLEAN
    /\ has_profile \in BOOLEAN
    /\ appPc \in {"idle", "initial", "followup", "direct"}
    /\ node \in {"none", "supervisor", "END", "raised"} \cup Builders
    /\ g_next \in SupervisorRouterFormatter \cup {"unset"}
    /\ turnOutcome \in {"none", "running", "ok", "ended", "RoutingFailure", "GenerationFailure"}
    /\ Len(ss_messages) <= MaxMsgs

\* ----------------------------------------------------------------- claims
Completed == turnOutcome \in {"ok", "ended"} \cup Failures

\* the supervisor of the current run has returned a conforming decision
Decided == turnTrace # << >> /\ turnOutcome # "none" /\ routerRaw \in SupervisorRouterFormatter

\* C1: in every turn the Router is invoked exactly once, then at most one
\* agent node is invoked, and the turn ends: the nodes invoked in a run are
\* the supervisor alone or the supervisor followed by one agent node, the
\* supervisor only ever runs first, and after an agent node nothing runs.
C1_RouterThenAtMostOneBuilder ==
    /\ turnTrace \in {<< >>, <<"supervisor">>} \cup {<<"supervisor", b>> : b \in Builders}
    /\ node = "supervisor" => turnTrace = << >>
    /\ node \in Builders => turnTrace = <<"supervisor">>
    /\ Len(turnTrace) = 2 => node \in {"END", "raised"}
    /\ Completed => turnTrace # << >>

C1_Witness ==
    /\ turnOutcome = "ok"
    /\ turnTrace = <<"supervisor", "Profile Analyzer">>
    /\ appPc = "idle"
    /\ Len(turnPre) >= 2

\* C2: when the Router returns a role and the agent node succeeds, both the
\* checkpointed messages and the session's messages are the messages from
\* before the turn, then the new User message, then one Assistant message
\* carrying the generated text.
C2_SuccessAppendsToHistory ==
    turnOutcome = "ok" =>
        LET expected == turnPre \o <<HumanMessage(turnUser), AIMessage(turnReply)>>
        IN  /\ ss_messages = expected
            /\ g_messages = expected

\* C3: after a turn that failed in the Router call or in the agent node's
\* generation call, the session's messages are the messages from before the
\* turn followed by the triggering User message, and nothing else.
C3_FailedTurnKeepsUserMessageOnly ==
    turnOutcome \in Failures =>
        /\ ss_messages = Append(turnPre, HumanMessage(turnUser))
        /\ Len(ss_messages) = Len(turnPre) + 1
        /\ node = "raised"

C3_Witness ==
    /\ turnOutcome = "GenerationFailure"
    /\ Len(turnPre) >= 2
    /\ appPc = "idle"

\* C4: when the Router returns "__end__", no agent node runs, no Assistant
\* message is appended in that turn, and the run is over with the state's
\* next = "__end__" (the Ended state).
C4_EndRunsNoBuilder ==
    (Decided /\ routerRaw = "__end__") =>
        /\ turnTrace = <<"supervisor">>
        /\ turnOutcome = "ended"
        /\ node = "END"
        /\ g_next = "__end__"
        /\ final_ai_response = ""
        /\ ss_messages = Append(turnPre, HumanMessage(turnUser))

C4_Witness ==
    /\ turnOutcome = "ended"
    /\ turnUser \in Prompts
    /\ appPc = "idle"

\* C5 (as stated): once a turn of the session was routed to "__end__", no
\* node (Router or agent) is invoked again in that session.
C5_EndedIsTerminal ==
    [][everEnded => ~(Len(turnTrace') > Len(turnTrace))]_vars

\* C5 (amended): "__end__" ends the turn only.  A User message recorded
\* after a turn was routed to "__end__" starts a new run at the supervisor.
C5_EndEndsTheTurnOnly ==
    [][(everEnded /\ turnOutcome # "running" /\ turnOutcome' = "running") =>
          /\ node' = "supervisor"
          /\ ss_messages' # << >>
          /\ ss_messages'[Len(ss_messages')] = HumanMessage(turnUser')]_vars

C5_Witness ==
    /\ everEnded
    /\ turnOutcome = "ok"
    /\ turnUser \in Prompts
    /\ Len(turnTrace) = 2

\* C6 (as stated): under every operation the session's messages only grow
\* at the end and the number of User messages never decreases.
C6_AppendOnly ==
    [][/\ IsPrefix(ss_messages, ss_messages')
       /\ NumUser(ss_messages') >= NumUser(ss_messages)]_vars

\* C6 (amended): every operation except a successful profile load only
\* appends to the session's messages; a successful profile load empties
\* them (and the initial analysis may start at once).
C6_AppendOnlyBetweenLoads ==
    [][IF lastOp' = "LoadProfile"
       THEN ss_messages' \in {<< >>, <<HumanMessage(InitialPrompt)>>}
       ELSE /\ IsPrefix(ss_messages, ss_messages')
            /\ NumUser(ss_messages') >= NumUser(ss_messages)]_vars

C6_Witness ==
    /\ lastOp = "LoadProfile"
    /\ everEnded
    /\ Len(ss_messages) <= 1

\* C7: with a deterministic backend, two Router calls on conversations with
\* the same latest User message return the same decision.
C7_RouteDependsOnLatestUserOnly ==
    \A p \in routed : \A q \in routed : p[1] = q[1] => p[3] = q[3]

C7_Witness ==
    \E p \in routed : \E q \in routed :
        /\ p[1] = q[1]
        /\ p[2] # q[2]
        /\ p[3] \in Builders
        /\ g_next \in Builders

\* C8 (as stated): when the conversation has no User message or the latest
\* one is empty, the Router is invoked and the turn resolves to "__end__"
\* without raising.
C8_EmptyDefaultsToEnd ==
    (turnTrace # << >> /\ turnUser = "") =>
        /\ routerRaw = "__end__"
        /\ turnOutcome \notin Failures

\* C8 (amended): when the conversation has no User message or the latest
\* one is empty, the Router is invoked with the empty request and the turn
\* follows whatever the backend answers for it: the decision if it
\* conforms, a failure otherwise.
C8_EmptyRequestIsRoutedByBackend ==
    (turnTrace # << >> /\ turnUser = "") =>
        /\ routerReq = ""
        /\ routerRaw = routerStub[""]
        /\ IF routerRaw \in SupervisorRouterFormatter
           THEN g_next = routerRaw /\ turnOutcome # "RoutingFailure"
           ELSE turnOutcome = "RoutingFailure"

C8_Witness ==
    /\ turnTrace = <<"supervisor">>
    /\ turnUser = ""
    /\ g_messages # << >>
    /\ HumanIdx(g_messages) = {}
    /\ node \in Builders

\* C9 (as stated): a RoutingFailure for a malformed Router output is
\* surfaced only after the classification call was retried once.
C9_MalformedIsRetriedOnce ==
    (turnOutcome = "RoutingFailure" /\ routerRaw = "malformed") => routerAttempts = 2

\* C9 (amended): a Router output that does not conform is rejected without
\* a retry: the classification call is made once, the turn aborts, and the
\* session's messages are those from before the turn plus the User message.
C9_MalformedFailsWithoutRetry ==
    (turnTrace # << >> /\ turnOutcome # "none" /\ routerRaw \notin SupervisorRouterFormatter) =>
        /\ routerAttempts = 1
        /\ turnOutcome = "RoutingFailure"
        /\ turnTrace = <<"supervisor">>
        /\ ss_messages = Append(turnPre, HumanMessage(turnUser))

C9_Witness ==
    /\ turnOutcome = "RoutingFailure"
    /\ routerRaw = "malformed"
    /\ routerAttempts = 1
    /\ Len(turnPre) >= 2

\* C10: dispatch is total and single-valued: every decision value has
\* exactly one edge, the agent node that runs is the one the decision
\* names, "__end__" leads to no agent node, and a conforming decision
\* never fails to dispatch.
C10_DispatchTotalSingleValued ==
    /\ \A d \in SupervisorRouterFormatter : Cardinality(Targets(ConditionalEdges, d)) = 1
    /\ node \in Builders => (node = g_next /\ node = routerRaw)
    /\ Decided =>
        /\ turnOutcome # "RoutingFailure"
        /\ g_next = routerRaw
        /\ IF routerRaw = "__end__"
           THEN turnTrace = <<"supervisor">> /\ node = "END"
           ELSE \/ turnTrace = <<"supervisor">> /\ node = routerRaw
                \/ turnTrace = <<"supervisor", routerRaw>> /\ node \in {"END", "raised"}

C10_Witness ==
    /\ turnOutcome = "ok"
    /\ routerRaw = "Career Counselor"
    /\ turnTrace = <<"supervisor", "Career Counselor">>

\* C13 (as stated): once the profile summary of the session is set, no
\* later operation of the session changes it.
C13_SummarySetOnce ==
    [][profile_summary # "unset" => profile_summary' = profile_summary]_vars

\* C13 (amended): the profile summary is set by every successful profile
\* load and by nothing else; between two loads it does not change, and an
\* agent node is always called with the summary the session holds.
C13_SummaryChangesOnlyOnLoad ==
    [][/\ lastOp' # "LoadProfile" => profile_summary' = profile_summary
       /\ lastOp' \in Builders => agentCall'.profile_data = profile_summary']_vars

C13_Witness ==
    /\ lastOp \in Builders
    /\ turnUser \in Prompts
    /\ everEnded
    /\ agentCall.profile_data = "s2"
    /\ profile_summary = "s2"

\* C14: in every turn driven by the application the request text the
\* Router sees and the request text the selected agent node sees are the
\* text of the User message submitted in that turn; the messages handed to
\* the graph end with that User message and the Router leaves them alone.
C14_RequestIsTheTurnsUserMessage ==
    /\ node \in {"supervisor"} \cup Builders =>
          /\ g_messages # << >>
          /\ g_messages[Len(g_messages)] = HumanMessage(turnUser)
    /\ (turnTrace # << >> /\ turnOutcome # "none") => routerReq = turnUser
    /\ (Len(turnTrace) = 2 /\ turnOutcome # "none") => agentCall.current_request = turnUser

C14_Witness ==
    /\ Len(turnTrace) = 2
    /\ turnOutcome = "ok"
    /\ turnUser \in Prompts
    /\ NumUser(turnPre) >= 2
    /\ routerReq = turnUser
    /\ agentCall.current_request = turnUser

\* C15: after each profile load the initial analysis is started at most
\* once: it starts only on an empty history, its User message is recorded
\* when the graph is invoked, and a rerun after an initial turn that failed
\* or was routed to "__end__" does not start it again.
C15_InitialAnalysisAtMostOncePerLoad ==
    /\ initialRuns <= 1
    /\ appPc = "initial" => (turnPre = << >> /\ ss_messages = <<HumanMessage(InitialPrompt)>>)
    /\ initialRuns = 1 => ss_messages # << >>

C15_Witness ==
    /\ initialRuns = 1
    /\ turnUser = InitialPrompt
    /\ turnOutcome \in Failures
    /\ lastOp \in {"SetApiKey", "LoadProfileFailed"}
    /\ api_key /\ has_profile
    /\ appPc = "idle"

\* what session s works with: its history, profile summary, the client its
\* graph was built with, its checkpoint, and, inside get_llm, the key its
\* client is about to be built with
SessionView(s) ==
    <<s_messages[s], s_summary[s], s_graph[s], checkpoints[s],
      IF runner[s] \in {"load_llm", "graph_llm"} THEN os_environ[EnvName(w_provider[s])] ELSE "-">>

\* C11: independent sessions share no mutable state: a step of one session
\* changes nothing another session works with (messages, profile summary,
\* generation backend configuration, checkpointed state), and so the client
\* of a session's graph carries the key entered in that session.
C11_SessionsShareNoMutableState ==
    [][/\ \A s \in Sessions : actor' # s => SessionView(s)' = SessionView(s)
       /\ \A s \in Sessions : s_graph'[s] # NoGraph => s_graph'[s].api_key = OwnKey(s)]_vars

\* C12: within one session turns are strictly sequential: a turn is never
\* started while another turn of the session is still in progress.
C12_OneTurnAtATime ==
    \A s \in Sessions : ~(runner[s] \in Turns /\ detached[s])

====
